---------------------------- MODULE Spec2Model ----------------------------
(***************************************************************************)
(* Threshold Schnorr: the keygen and sign round state machines of          *)
(* protocols/threshold_schnorr/state_machine, with the party-local         *)
(* cryptography (party_i), the Feldman VSS and the message stores they     *)
(* call.                                                                   *)
(*                                                                         *)
(* The prime-order group is modelled by its discrete logarithms: a point   *)
(* GE is the scalar k of k*G0 for a fixed base point, so that point        *)
(* addition is addition mod Q and scalar multiplication is multiplication  *)
(* mod Q.  The generator G of the code is the point GEN.                   *)
(*                                                                         *)
(* Rust vectors are 0-based; the sequences here are 1-based, so            *)
(* vec[k] in the code is vec[k + 1] here.                                  *)
(***************************************************************************)
EXTENDS Integers, Sequences, FiniteSets, TLC

\* ------------------------------------------------------------------ bounds

\* Largest number of keygen parties explored.
MaxN == 3
\* Seeds of the random tape explored (1..MaxSeed).
MaxSeed == 2
\* Messages to sign explored (0..MaxMessage).
MaxMessage == 1
\* Largest offset a tampering network adds to a value on the wire.
MaxDelta == 1

\* ------------------------------------------------------- scalars and points

\* Order of the scalar field FE (and of the group GE).
Q == 13
\* Discrete logarithm of the generator GE::generator().
GEN == 5

FE == 0 .. (Q - 1)

FeAdd(a, b) == (a + b) % Q
FeSub(a, b) == (a + Q - (b % Q)) % Q
FeMul(a, b) == (a * b) % Q
FeInv(a) == CHOOSE x \in FE : (a * x) % Q = 1
FeFromInt(k) == k % Q

\* GE + GE, GE * FE, G * FE
GeAdd(p, r) == (p + r) % Q
GeMul(p, s) == (p * s) % Q
GeSub(p, r) == (p + Q - (r % Q)) % Q
GMul(s) == GeMul(GEN, s)

RECURSIVE SumSeq(_)
SumSeq(s) == IF s = << >> THEN 0 ELSE (Head(s) + SumSeq(Tail(s))) % Q

\* iter.next().unwrap() followed by fold(first, |acc, x| acc + x)
FoldGe(s) == SumSeq(s)
\* iter().fold(FE::zero(), |acc, x| acc + x)
FoldFe(s) == SumSeq(s)

\* ------------------------------------------------------------- randomness

\* The k-th scalar that party i draws from its random source in a run
\* whose random tape has the given seed.
Tape(seed, i, k) ==
    LET x == 29 * seed + 13 * i + 7 * k
    IN  (x * x * x + 3 * x + seed * i * k) % Q

\* --------------------------------------------------------------- hashing

\* HashCommitment of a point with a blinding factor: collision-free.
HashCommit(y, blind) == y * Q + blind

\* e = H(R || Y || m) reduced to a scalar.
HashChallenge(R, Y, m) == (R * R + 3 * R * Y + 7 * Y + 5 * m + 2) % Q


\* ------------------------------------------------------------ Feldman VSS

\* Coefficients of the dealing polynomial of party i: the secret, then t
\* scalars from the random source (draws 3 .. t + 2 of the tape).
SamplePolynomial(seed, i, t, secret) ==
    [k \in 1 .. (t + 1) |-> IF k = 1 THEN secret ELSE Tape(seed, i, k + 1)]

\* Horner evaluation of a polynomial over FE at the scalar x.
RECURSIVE EvalFrom(_, _, _)
EvalFrom(coef, x, k) ==
    IF k > Len(coef) THEN 0
    ELSE FeAdd(coef[k], FeMul(x, EvalFrom(coef, x, k + 1)))

EvaluatePolynomial(coef, point) == EvalFrom(coef, FeFromInt(point), 1)

\* VerifiableSS::share_at_indices(t, n, secret, index_vec): the commitment
\* vector G * coef[k] and one share per entry of index_vec, evaluated at
\* that entry.
ShareAtIndices(seed, i, t, n, secret, index_vec) ==
    LET poly == SamplePolynomial(seed, i, t, secret)
    IN  [vss |-> [parameters |-> [threshold |-> t, share_count |-> n],
                  commitments |-> [k \in 1 .. (t + 1) |-> GMul(poly[k])]],
         shares |-> [k \in 1 .. Len(index_vec) |->
                        EvaluatePolynomial(poly, index_vec[k])]]

\* VerifiableSS::get_point_commitment(index): the commitment vector
\* evaluated in the exponent at the point index.
RECURSIVE CommitFrom(_, _, _)
CommitFrom(comms, x, k) ==
    IF k > Len(comms) THEN 0
    ELSE GeAdd(comms[k], GeMul(CommitFrom(comms, x, k + 1), x))

GetPointCommitment(vss, index) == CommitFrom(vss.commitments, FeFromInt(index), 1)

\* VerifiableSS::validate_share(share, index).is_ok()
ValidateShare(vss, share, index) == GMul(share) = GetPointCommitment(vss, index)

\* VerifiableSS::validate_share_public(point, index).is_ok()
ValidateSharePublic(vss, ss_point, index) == ss_point = GetPointCommitment(vss, index)

\* Lagrange coefficient at 0 of the point points[k] among points.
RECURSIVE LagrangeNum(_, _, _)
LagrangeNum(points, k, j) ==
    IF j > Len(points) THEN 1
    ELSE IF j = k THEN LagrangeNum(points, k, j + 1)
    ELSE FeMul(FeFromInt(points[j]), LagrangeNum(points, k, j + 1))

RECURSIVE LagrangeDen(_, _, _)
LagrangeDen(points, k, j) ==
    IF j > Len(points) THEN 1
    ELSE IF j = k THEN LagrangeDen(points, k, j + 1)
    ELSE FeMul(FeSub(FeFromInt(points[j]), FeFromInt(points[k])),
               LagrangeDen(points, k, j + 1))

RECURSIVE InterpolateFrom(_, _, _)
InterpolateFrom(points, values, k) ==
    IF k > Len(points) THEN 0
    ELSE FeAdd(FeMul(values[k],
                     FeMul(LagrangeNum(points, k, 1),
                           FeInv(LagrangeDen(points, k, 1)))),
               InterpolateFrom(points, values, k + 1))

\* Lagrange interpolation at 0 of the values at the given (distinct,
\* non-zero) points.
LagrangeAtZero(points, values) == InterpolateFrom(points, values, 1)

\* VerifiableSS::reconstruct(indices, shares): the indices are 0-based,
\* the share of index k lies at the point k + 1.
Reconstruct(indices, shares) ==
    LagrangeAtZero([k \in 1 .. Len(indices) |-> indices[k] + 1], shares)

\* ------------------------------------------------- party_i (bitcoin_schnorr)

\* Keys::phase1_create(index): u_i from the random source, y_i = G * u_i.
\* rng names the random source of the caller: its tape seed and its owner.
KeysPhase1Create(rng, index) ==
    LET u == Tape(rng.seed, rng.id, 1)
    IN  [u_i |-> u, y_i |-> GMul(u), party_index |-> index]

\* Keys::phase1_broadcast(): a blinding factor from the random source and
\* the hash commitment to y_i under it.
KeysPhase1Broadcast(rng, keys) ==
    LET blind == Tape(rng.seed, rng.id, 2)
    IN  [comm |-> HashCommit(keys.y_i, blind), decom |-> blind]

\* Keys::phase1_verify_com_phase2_distribute(params, decoms, ys, comms,
\* parties): every commitment must open, then the own u_i is dealt at
\* threshold t to the points listed in parties.
Phase1VerifyComPhase2Distribute(rng, keys, params, blind_vec, y_vec, bc1_vec, parties) ==
    LET correct == \A k \in 1 .. Len(bc1_vec) :
                       HashCommit(y_vec[k], blind_vec[k]) = bc1_vec[k]
        dealt == ShareAtIndices(rng.seed, rng.id, params.threshold,
                                params.share_count, keys.u_i, parties)
    IN  [ok |-> correct, err |-> "InvalidCommitment",
         vss_scheme |-> dealt.vss, secret_shares |-> dealt.shares,
         index |-> keys.party_index]

\* Keys::phase2_verify_vss_construct_keypair(params, ys, shares, vss_schemes,
\* own_index_1based): every share must lie on its dealer's committed
\* polynomial at the own point; x_i is the sum of the shares, y the sum of
\* the y_j.
Phase2VerifyVssConstructKeypair(params, y_vec, secret_shares_vec, vss_scheme_vec, index) ==
    LET correct == \A k \in 1 .. Len(y_vec) :
                       ValidateShare(vss_scheme_vec[k], secret_shares_vec[k], index)
    IN  [ok |-> correct, err |-> "InvalidSS",
         shared_keys |-> [y |-> FoldGe(y_vec), x_i |-> FoldFe(secret_shares_vec)]]

\* LocalSig::compute(message, eph_keys, long_keys)
LocalSigCompute(message, local_ephemeral_key, local_private_key) ==
    LET e == HashChallenge(local_ephemeral_key.y, local_private_key.y, message)
    IN  [gamma_i |-> FeAdd(local_ephemeral_key.x_i, FeMul(e, local_private_key.x_i)),
         e |-> e]

\* Signature::generate interpolating from as many entries as there are,
\* however few.
SignatureGenerateAny(vss_sum_local_sigs, local_sig_vec, parties_index_vec, v) ==
    LET limit == vss_sum_local_sigs.parameters.threshold + 1
        reconstruct_limit == IF Len(local_sig_vec) < limit
                             THEN Len(local_sig_vec) ELSE limit
    IN  [ok |-> TRUE,
         signature |->
           [R |-> v,
            sigma |-> Reconstruct(
                SubSeq(parties_index_vec, 1, reconstruct_limit),
                [k \in 1 .. reconstruct_limit |-> local_sig_vec[k].gamma_i])]]

\* Signature::generate(vss_sum, local_sigs, parties_0based, v): sigma is
\* interpolated from the first t + 1 gamma_i at the first t + 1 entries of
\* the 0-based index list; fewer than t + 1 entries cannot be interpolated.
SignatureGenerate(vss_sum_local_sigs, local_sig_vec, parties_index_vec, v) ==
    LET reconstruct_limit == vss_sum_local_sigs.parameters.threshold + 1
    IN  IF Len(parties_index_vec) < reconstruct_limit
           \/ Len(local_sig_vec) < reconstruct_limit
        THEN [ok |-> FALSE]
        ELSE [ok |-> TRUE,
              signature |->
                [R |-> v,
                 sigma |-> Reconstruct(
                     SubSeq(parties_index_vec, 1, reconstruct_limit),
                     [k \in 1 .. reconstruct_limit |-> local_sig_vec[k].gamma_i])]]

\* verify(Y, R, sigma, m): G * sigma == R + H(R || Y || m) * Y
SignatureVerify(signature, message, pubkey_y) ==
    LET e == HashChallenge(signature.R, pubkey_y, message)
    IN  GMul(signature.sigma) = GeAdd(signature.R, GeMul(pubkey_y, e))

\* ------------------------------------------------------------ message stores

\* Msg { sender, receiver, body }; receiver 0 stands for None.  round is
\* the variant of the protocol message enum M the body is wrapped in.
Msg(sender, receiver, round, body) ==
    [sender |-> sender, receiver |-> receiver, round |-> round, body |-> body]

\* A store made for one party more than there are.
NewStoreOneMore(i, n, p2p) ==
    [party_i |-> i, n |-> n + 1, p2p |-> p2p, present |-> TRUE, msgs |-> << >>]

\* BroadcastMsgsStore::new(i, n) and P2PMsgsStore::new(i, n): an inbox of
\* party i for one message of each of the other n - 1 parties.
NewStore(i, n, p2p) ==
    [party_i |-> i, n |-> n, p2p |-> p2p, present |-> TRUE, msgs |-> << >>]

\* Store::wants_more()
WantsMore(store) == Cardinality(DOMAIN store.msgs) < store.n - 1

\* Whether Store::push_msg accepts the message: a sender in 1..n other
\* than the owner, not seen before, addressed as the store expects.
PushAccepts(store, msg) ==
    /\ store.present
    /\ msg.sender \in 1 .. store.n
    /\ msg.sender # store.party_i
    /\ msg.sender \notin DOMAIN store.msgs
    /\ IF store.p2p THEN msg.receiver = store.party_i ELSE msg.receiver = 0

\* Store::push_msg(msg): a rejected message leaves the store as it was.
PushMsg(store, msg) ==
    IF PushAccepts(store, msg)
    THEN [store EXCEPT !.msgs = (msg.sender :> msg.body) @@ store.msgs]
    ELSE store

\* The store once its messages were taken by a round (Option::take).
TakenStore(store) == [store EXCEPT !.present = FALSE, !.msgs = << >>]

\* BroadcastMsgs / P2PMsgs ::into_vec_including_me(me): the n messages
\* ordered by sender, the own one at position party_i - 1.
IntoVecIncludingMe(store, me) ==
    [k \in 1 .. store.n |-> IF k = store.party_i THEN me ELSE store.msgs[k]]

\* --------------------------------------------------------- shared by rounds

\* A threshold one too high.
ParametersOffByOne(t, n) == [threshold |-> t + 1, share_count |-> n]

\* party_i::Parameters { threshold: self.t.into(), share_count: self.n.into() }
Parameters(t, n) == [threshold |-> t, share_count |-> n]

\* Result<T> of a round: Ok(next) with the messages pushed to the output,
\* or Err(err) (nothing returned).  A panic unwinds out of the call.
RoundOk(next, out) == [ok |-> TRUE, err |-> "Ok", next |-> next, out |-> out]
RoundErr(err, out) == [ok |-> FALSE, err |-> err, next |-> [gone |-> TRUE], out |-> out]

\* The columns of the received BroadcastPhase1 messages (unzip).
CommOf(received) == [k \in 1 .. Len(received) |-> received[k].comm]
DecomOf(received) == [k \in 1 .. Len(received) |-> received[k].decom]
YOf(received) == [k \in 1 .. Len(received) |-> received[k].y_i]
\* d.into_iter().map(|i| usize::from(i) + 1)
PointsOf(received) == [k \in 1 .. Len(received) |-> received[k].index + 1]

\* The P2P messages of Round1 with the own share sent like the others.
ShareMsgsToAll(party_i, vss_scheme, secret_shares) ==
    [k \in 1 .. Len(secret_shares) |->
        Msg(party_i, k, 2, [vss |-> vss_scheme, share |-> secret_shares[k]])]

\* The P2P messages of Round1: secret_shares[i] goes to party i + 1, the
\* own one is skipped.
ShareMsgs(party_i, vss_scheme, secret_shares) ==
    LET all == [k \in 1 .. Len(secret_shares) |->
                   Msg(party_i, k, 2, [vss |-> vss_scheme, share |-> secret_shares[k]])]
        NotMe(m) == m.receiver # party_i
    IN  SelectSeq(all, NotMe)

VssOf(received) == [k \in 1 .. Len(received) |-> received[k].vss]
SharesOf(received) == [k \in 1 .. Len(received) |-> received[k].share]

\* The own y_i instead of the joint key.
public_key_own(local_key) == local_key.vk_vec[local_key.party_i]

\* LocalKey::public_key()
public_key(local_key) == local_key.shared_keys.y

\* ------------------------------------------------------------ keygen rounds

\* Round0 that names the sender by its index party_i - 1.
KeygenRound0ZeroBased(self, rng) ==
    LET keys == KeysPhase1Create(rng, self.party_i - 1)
        bc == KeysPhase1Broadcast(rng, keys)
        mybroadcast == [comm |-> bc.comm, decom |-> bc.decom,
                        y_i |-> keys.y_i, index |-> keys.party_index]
    IN  RoundOk([keys |-> keys, mybroadcast |-> mybroadcast,
                 party_i |-> self.party_i, t |-> self.t, n |-> self.n,
                 parties |-> self.parties],
                << Msg(keys.party_index, 0, 1, mybroadcast) >>)

\* keygen Round0::proceed(self, output)
KeygenRound0(self, rng) ==
    LET keys == KeysPhase1Create(rng, self.party_i - 1)
        bc == KeysPhase1Broadcast(rng, keys)
        mybroadcast == [comm |-> bc.comm, decom |-> bc.decom,
                        y_i |-> keys.y_i, index |-> keys.party_index]
    IN  RoundOk([keys |-> keys, mybroadcast |-> mybroadcast,
                 party_i |-> self.party_i, t |-> self.t, n |-> self.n,
                 parties |-> self.parties],
                << Msg(self.party_i, 0, 1, mybroadcast) >>)

\* Round1 with the result of the commitment check dropped.
KeygenRound1Unchecked(self, input, rng) ==
    LET params == Parameters(self.t, self.n)
        received_decom == IntoVecIncludingMe(input, self.mybroadcast)
        c == YOf(received_decom)
        r == Phase1VerifyComPhase2Distribute(rng, self.keys, params,
                 DecomOf(received_decom), c, CommOf(received_decom),
                 PointsOf(received_decom))
    IN  RoundOk([keys |-> self.keys, index |-> r.index,
                 own_vss |-> r.vss_scheme,
                 own_share |-> r.secret_shares[self.party_i],
                 party_i |-> self.party_i, t |-> self.t, n |-> self.n,
                 parties |-> self.parties, y_vec |-> c],
                ShareMsgs(self.party_i, r.vss_scheme, r.secret_shares))

\* Round1 that pushes the shares it dealt before it returns the error of
\* the commitment check.
KeygenRound1SendingFirst(self, input, rng) ==
    LET params == Parameters(self.t, self.n)
        received_decom == IntoVecIncludingMe(input, self.mybroadcast)
        c == YOf(received_decom)
        r == Phase1VerifyComPhase2Distribute(rng, self.keys, params,
                 DecomOf(received_decom), c, CommOf(received_decom),
                 PointsOf(received_decom))
        out == ShareMsgs(self.party_i, r.vss_scheme, r.secret_shares)
    IN  IF ~r.ok THEN RoundErr("Round1(" \o r.err \o ")", out)
        ELSE RoundOk([keys |-> self.keys, index |-> r.index,
                      own_vss |-> r.vss_scheme,
                      own_share |-> r.secret_shares[self.party_i],
                      party_i |-> self.party_i, t |-> self.t, n |-> self.n,
                      parties |-> self.parties, y_vec |-> c],
                     out)

\* keygen Round1::proceed(self, input, output)
KeygenRound1(self, input, rng) ==
    LET params == Parameters(self.t, self.n)
        received_decom == IntoVecIncludingMe(input, self.mybroadcast)
        a == CommOf(received_decom)
        b == DecomOf(received_decom)
        c == YOf(received_decom)
        d == PointsOf(received_decom)
        r == Phase1VerifyComPhase2Distribute(rng, self.keys, params, b, c, a, d)
        out == ShareMsgs(self.party_i, r.vss_scheme, r.secret_shares)
    IN  IF ~r.ok THEN RoundErr("Round1(" \o r.err \o ")", << >>)
        ELSE IF self.party_i > Len(r.secret_shares) THEN RoundErr("Panic", out)
        ELSE RoundOk([keys |-> self.keys, index |-> r.index,
                      own_vss |-> r.vss_scheme,
                      own_share |-> r.secret_shares[self.party_i],
                      party_i |-> self.party_i, t |-> self.t, n |-> self.n,
                      parties |-> self.parties, y_vec |-> c],
                     out)

\* Round2 with the result of the share check dropped.
KeygenRound2Unchecked(self, input) ==
    LET received_data == IntoVecIncludingMe(input, [vss |-> self.own_vss,
                                                    share |-> self.own_share])
        a == VssOf(received_data)
        r == Phase2VerifyVssConstructKeypair(Parameters(self.t, self.n), self.y_vec,
                 SharesOf(received_data), a, self.index + 1)
    IN  RoundOk([shared_keys |-> r.shared_keys, vss_scheme |-> self.own_vss,
                 vk_vec |-> self.y_vec, vss_scheme_vec |-> a,
                 party_i |-> self.party_i, t |-> self.t, n |-> self.n],
                << >>)

\* keygen Round2::proceed(self, input)
KeygenRound2(self, input) ==
    LET params == Parameters(self.t, self.n)
        received_data == IntoVecIncludingMe(input, [vss |-> self.own_vss,
                                                    share |-> self.own_share])
        a == VssOf(received_data)
        b == SharesOf(received_data)
        r == Phase2VerifyVssConstructKeypair(params, self.y_vec, b, a, self.index + 1)
    IN  IF ~r.ok THEN RoundErr("Round2(" \o r.err \o ")", << >>)
        ELSE RoundOk([shared_keys |-> r.shared_keys, vss_scheme |-> self.own_vss,
                      vk_vec |-> self.y_vec, vss_scheme_vec |-> a,
                      party_i |-> self.party_i, t |-> self.t, n |-> self.n],
                     << >>)

\* -------------------------------------------------------------- sign rounds

\* sign Round0::proceed(self, output)
SignRound0(self, rng) ==
    LET keys == KeysPhase1Create(rng, self.party_i - 1)
        bc == KeysPhase1Broadcast(rng, keys)
        mybroadcast == [comm |-> bc.comm, decom |-> bc.decom,
                        y_i |-> keys.y_i, index |-> keys.party_index]
    IN  RoundOk([keys |-> keys, mybroadcast |-> mybroadcast,
                 private_key |-> self.private_key, message |-> self.message,
                 party_i |-> self.party_i, t |-> self.t, n |-> self.n,
                 parties |-> self.parties],
                << Msg(self.party_i, 0, 1, mybroadcast) >>)

\* Round1 working on the received broadcasts with the own one put first,
\* whoever the owner is.
SignRound1MeFirst(self, input, rng) ==
    LET params == Parameters(self.t, self.n)
        received_decom ==
            [k \in 1 .. input.n |->
                IF k = 1 THEN self.mybroadcast
                ELSE input.msgs[IF k <= input.party_i THEN k - 1 ELSE k]]
        c == YOf(received_decom)
        d == PointsOf(received_decom)
        r == Phase1VerifyComPhase2Distribute(rng, self.keys, params,
                 DecomOf(received_decom), c, CommOf(received_decom), d)
        out == ShareMsgs(self.party_i, r.vss_scheme, r.secret_shares)
    IN  IF ~r.ok THEN RoundErr("Round1(" \o r.err \o ")", << >>)
        ELSE IF self.party_i > Len(r.secret_shares) THEN RoundErr("Panic", out)
        ELSE RoundOk([keys |-> self.keys, index |-> r.index,
                      own_vss |-> r.vss_scheme,
                      own_share |-> r.secret_shares[self.party_i],
                      y_vec |-> c,
                      private_key |-> self.private_key, message |-> self.message,
                      party_i |-> self.party_i, t |-> self.t, n |-> self.n,
                      parties |-> d],
                     out)

\* sign Round1::proceed(self, input, output)
SignRound1(self, input, rng) ==
    LET params == Parameters(self.t, self.n)
        received_decom == IntoVecIncludingMe(input, self.mybroadcast)
        a == CommOf(received_decom)
        b == DecomOf(received_decom)
        c == YOf(received_decom)
        d == PointsOf(received_decom)
        r == Phase1VerifyComPhase2Distribute(rng, self.keys, params, b, c, a, d)
        out == ShareMsgs(self.party_i, r.vss_scheme, r.secret_shares)
    IN  IF ~r.ok THEN RoundErr("Round1(" \o r.err \o ")", << >>)
        ELSE IF self.party_i > Len(r.secret_shares) THEN RoundErr("Panic", out)
        ELSE RoundOk([keys |-> self.keys, index |-> r.index,
                      own_vss |-> r.vss_scheme,
                      own_share |-> r.secret_shares[self.party_i],
                      y_vec |-> c,
                      private_key |-> self.private_key, message |-> self.message,
                      party_i |-> self.party_i, t |-> self.t, n |-> self.n,
                      parties |-> d],
                     out)

\* sign Round2::proceed(self, input, output)
SignRound2(self, input) ==
    LET params == Parameters(self.t, self.n)
        received_data == IntoVecIncludingMe(input, [vss |-> self.own_vss,
                                                    share |-> self.own_share])
        a == VssOf(received_data)
        b == SharesOf(received_data)
        r == Phase2VerifyVssConstructKeypair(params, self.y_vec, b, a, self.index + 1)
        local_sig == LocalSigCompute(self.message, r.shared_keys,
                                     self.private_key.shared_keys)
        temp_key == [shared_keys |-> r.shared_keys, vss_scheme |-> self.own_vss,
                     vk_vec |-> self.y_vec, vss_scheme_vec |-> a,
                     party_i |-> self.party_i, t |-> self.t, n |-> self.n]
    IN  IF ~r.ok THEN RoundErr("Round2(" \o r.err \o ")", << >>)
        ELSE RoundOk([tmpkey |-> temp_key, local_sig |-> local_sig,
                      y_vec |-> self.y_vec,
                      private_key |-> self.private_key, message |-> self.message,
                      party_i |-> self.party_i, t |-> self.t, n |-> self.n,
                      parties |-> self.parties],
                     << Msg(self.party_i, 0, 3, local_sig) >>)

\* The point Round3 broadcasts: entry party_i - 1 of every long-term
\* commitment vector times e, plus entry party_i - 1 of every ephemeral
\* commitment vector, summed.
CommToBroadcast(vss_private_keys, vss_ephemeral_keys, gamma_vec, party_i) ==
    LET key_gen_comm_i_vec ==
            [j \in 1 .. Len(vss_private_keys) |->
                GeMul(vss_private_keys[j].commitments[party_i], gamma_vec[party_i].e)]
        eph_comm_i_vec ==
            [j \in 1 .. Len(vss_ephemeral_keys) |->
                vss_ephemeral_keys[j].commitments[party_i]]
    IN  FoldGe(key_gen_comm_i_vec \o eph_comm_i_vec)

\* sign Round3::proceed(self, input, output): indexing a commitment vector
\* past its end panics.
SignRound3(self, input) ==
    LET gamma_vec == IntoVecIncludingMe(input, self.local_sig)
        vss_private_keys == self.private_key.vss_scheme_vec
        vss_ephemeral_keys == self.tmpkey.vss_scheme_vec
        inBounds ==
            /\ \A j \in 1 .. Len(vss_private_keys) :
                   self.party_i <= Len(vss_private_keys[j].commitments)
            /\ \A j \in 1 .. Len(vss_ephemeral_keys) :
                   self.party_i <= Len(vss_ephemeral_keys[j].commitments)
        comm_to_broadcast ==
            CommToBroadcast(vss_private_keys, vss_ephemeral_keys, gamma_vec,
                            self.party_i)
    IN  IF ~inBounds THEN RoundErr("Panic", << >>)
        ELSE RoundOk([tmpkey |-> self.tmpkey, local_sig |-> self.local_sig,
                      y_vec |-> self.y_vec, comm |-> comm_to_broadcast,
                      local_sig_vec |-> gamma_vec,
                      private_key |-> self.private_key, message |-> self.message,
                      party_i |-> self.party_i, t |-> self.t, n |-> self.n,
                      parties |-> self.parties],
                     << Msg(self.party_i, 0, 4, comm_to_broadcast) >>)

\* sign Round4::proceed(self, input, output)
SignRound4(self, input) ==
    LET comm_vec == IntoVecIncludingMe(input, self.comm)
        vss_sum == [parameters |-> self.private_key.vss_scheme.parameters,
                    commitments |-> comm_vec]
        gamma_i_g == GMul(self.local_sig.gamma_i)
        validate_result == ValidateSharePublic(vss_sum, gamma_i_g, self.party_i)
    IN  RoundOk([tmpkey |-> self.tmpkey, local_sig |-> self.local_sig,
                 y_vec |-> self.y_vec, own_result |-> validate_result,
                 local_sig_vec |-> self.local_sig_vec, vss_sum |-> vss_sum,
                 private_key |-> self.private_key, message |-> self.message,
                 party_i |-> self.party_i, t |-> self.t, n |-> self.n,
                 parties |-> self.parties],
                << Msg(self.party_i, 0, 5, validate_result) >>)

\* Round5 that looks at the party's own validation result only.
SignRound5OwnOnly(self, input) ==
    LET g == SignatureGenerate(self.vss_sum, self.local_sig_vec, self.parties,
                               public_key(self.tmpkey))
    IN  IF self.own_result = FALSE THEN RoundErr("Round5(InvalidSig)", << >>)
        ELSE IF ~g.ok THEN RoundErr("Panic", << >>)
        ELSE RoundOk([signature |-> g.signature], << >>)

\* sign Round5::proceed(self, input)
SignRound5(self, input) ==
    LET comm_vec == IntoVecIncludingMe(input, self.own_result)
        res == \A k \in 1 .. Len(comm_vec) : comm_vec[k] = TRUE
        g == SignatureGenerate(self.vss_sum, self.local_sig_vec, self.parties,
                               public_key(self.tmpkey))
    IN  IF res = FALSE THEN RoundErr("Round5(InvalidSig)", << >>)
        ELSE IF ~g.ok THEN RoundErr("Panic", << >>)
        ELSE RoundOk([signature |-> g.signature], << >>)

\* ------------------------------------------------------------------- state

VARIABLES
    run,         \* the parameters the drivers were started with
    round,       \* round[i]: the variant of R the machine of party i is in
    rs,          \* rs[i]: the fields of that variant (the round's struct)
    msgs,        \* msgs[i][k]: the store msgs<k> of party i
    msgs_queue,  \* msgs_queue[i]: outbound messages not yet drained
    last,        \* the latest call of proceed: who, in which round, its result
    wire,        \* what the network has altered in this run, if anything
    output       \* output[i]: what pick_output handed to the driver of i

vars == << run, round, rs, msgs, msgs_queue, last, wire, output >>

Parties == 1 .. run.n

\* The random source of party i in this run.
Rng(i) == [seed |-> run.seed, id |-> i]

RECURSIVE SortedSeq(_)
SortedSeq(S) ==
    IF S = {} THEN << >>
    ELSE LET m == CHOOSE x \in S : \A y \in S : x <= y
         IN  << m >> \o SortedSeq(S \ {m})

\* ------------------------------------------- an honest keygen run, in closed form

\* What the rounds of an undisturbed keygen run of n parties with threshold
\* t and tape seed compute for party i: the sign machine is started with
\* the LocalKey of such a run.
HonestRound1(n, t, seed, i) ==
    KeygenRound0([party_i |-> i, t |-> t, n |-> n, parties |-> [k \in 1 .. n |-> k]],
                 [seed |-> seed, id |-> i]).next

HonestStore1(n, t, seed, i) ==
    [NewStore(i, n, FALSE) EXCEPT
        !.msgs = [j \in (1 .. n) \ {i} |-> HonestRound1(n, t, seed, j).mybroadcast]]

HonestRound1Result(n, t, seed, i) ==
    KeygenRound1(HonestRound1(n, t, seed, i), HonestStore1(n, t, seed, i),
                 [seed |-> seed, id |-> i])

HonestShareFor(n, t, seed, j, i) ==
    LET out == HonestRound1Result(n, t, seed, j).out
        k == CHOOSE k \in 1 .. Len(out) : out[k].receiver = i
    IN  out[k].body

HonestStore2(n, t, seed, i) ==
    [NewStore(i, n, TRUE) EXCEPT
        !.msgs = [j \in (1 .. n) \ {i} |-> HonestShareFor(n, t, seed, j, i)]]

HonestLocalKey(n, t, seed, i) ==
    KeygenRound2(HonestRound1Result(n, t, seed, i).next,
                 HonestStore2(n, t, seed, i)).next

\* -------------------------------------------------------------------- Init

NoCall == [party |-> 0, from |-> "None", ret |-> "None"]
NoTamper == [kind |-> "none", sender |-> 0, receiver |-> 0]

\* Keygen::new(i, t, n) for every party of a run with 1 <= t < n.
InitKeygen ==
    /\ run \in { [proto |-> "keygen", n |-> n, t |-> t, seed |-> seed,
                  keyn |-> n, keyseed |-> seed, message |-> 0,
                  signers |-> [k \in 1 .. n |-> k]] :
                 n \in 2 .. MaxN, t \in 1 .. (MaxN - 1), seed \in 1 .. MaxSeed }
    /\ run.t < run.n
    /\ round = [i \in Parties |-> "Round0"]
    /\ rs = [i \in Parties |->
                [party_i |-> i, t |-> run.t, n |-> run.n, parties |-> run.signers]]
    /\ msgs = [i \in Parties |->
                  [k \in 1 .. 2 |-> NewStore(i, run.n, k = 2)]]
    /\ msgs_queue = [i \in Parties |-> << >>]
    /\ last = NoCall
    /\ wire = NoTamper
    /\ output = [i \in Parties |-> << >>]

\* Sign::new(message, i, t, n, parties, local_key) for every signer: the
\* signers are a subset of the parties of an honest keygen run, listed in
\* ascending order; signer number p holds the LocalKey of signers[p].  The
\* nonces come from a tape other than the one the keys came from.
\* Subsets of t members are started too (the drivers do not know better).
InitSign ==
    /\ run \in { [proto |-> "sign", n |-> Cardinality(S), t |-> t, seed |-> seed,
                  keyn |-> n, keyseed |-> keyseed, message |-> m,
                  signers |-> SortedSeq(S)] :
                 n \in 2 .. MaxN, t \in 1 .. (MaxN - 1),
                 seed \in (MaxSeed + 1) .. (2 * MaxSeed), keyseed \in 1 .. MaxSeed, m \in 0 .. MaxMessage,
                 S \in SUBSET (1 .. MaxN) }
    /\ run.t < run.keyn
    /\ \A k \in 1 .. run.n : run.signers[k] <= run.keyn
    /\ run.n >= run.t
    /\ round = [i \in Parties |-> "Round0"]
    /\ rs = [i \in Parties |->
                [private_key |-> HonestLocalKey(run.keyn, run.t, run.keyseed,
                                                run.signers[i]),
                 message |-> run.message,
                 party_i |-> i, t |-> run.t, n |-> run.n, parties |-> run.signers]]
    /\ msgs = [i \in Parties |->
                  [k \in 1 .. 5 |-> NewStore(i, run.n, k = 2)]]
    /\ msgs_queue = [i \in Parties |-> << >>]
    /\ last = NoCall
    /\ wire = NoTamper
    /\ output = [i \in Parties |-> << >>]

Init == InitKeygen \/ InitSign

\* ------------------------------------------------------- the state machines

\* The round after a round, with the sign machine leaving Round2 for Final.
NextRoundSkipping(r) ==
    CASE r = "Round0" -> "Round1"
      [] r = "Round1" -> "Round2"
      [] r = "Round2" -> "Final"
      [] r = "Round3" -> "Round4"
      [] r = "Round4" -> "Round5"
      [] r = "Round5" -> "Final"
      [] OTHER -> "Gone"

\* The round after a round, in the order of the variants of R.
NextRound(r) ==
    CASE r = "Round0" -> "Round1"
      [] r = "Round1" -> "Round2"
      [] r = "Round2" -> IF run.proto = "keygen" THEN "Final" ELSE "Round3"
      [] r = "Round3" -> "Round4"
      [] r = "Round4" -> "Round5"
      [] r = "Round5" -> "Final"
      [] OTHER -> "Gone"

\* The variants of R in their order, for the keygen and the sign machine.
KeygenOrder == << "Round0", "Round1", "Round2", "Final", "Gone" >>
SignOrder ==
    << "Round0", "Round1", "Round2", "Round3", "Round4", "Round5", "Final", "Gone" >>
Order == IF run.proto = "keygen" THEN KeygenOrder ELSE SignOrder

\* The place of a variant in that order.
Position(r) == CHOOSE k \in 1 .. Len(Order) : Order[k] = r

\* The number k of the store msgs<k> that feeds a round (0: none).
StoreOf(r) ==
    CASE r = "Round1" -> 1
      [] r = "Round2" -> 2
      [] r = "Round3" -> 3
      [] r = "Round4" -> 4
      [] r = "Round5" -> 5
      [] OTHER -> 0

\* wants_to_proceed()
WantsToProceed(i) ==
    \/ round[i] = "Round0"
    \/ /\ StoreOf(round[i]) # 0
       /\ ~WantsMore(msgs[i][StoreOf(round[i])])

\* proceed() that puts the round back into the machine when it failed.
AdvanceRetrying(i, res) ==
    /\ round' = [round EXCEPT ![i] = IF res.ok THEN NextRound(round[i]) ELSE @]
    /\ rs' = [rs EXCEPT ![i] = IF res.ok THEN res.next ELSE @]
    /\ msgs_queue' = [msgs_queue EXCEPT ![i] = @ \o res.out]
    /\ msgs' = msgs
    /\ last' = [party |-> i, from |-> round[i], ret |-> res.err]
    /\ UNCHANGED << run, wire, output >>

\* proceed() on a round whose input is complete: the round is moved out
\* of the machine (which holds Gone meanwhile), its store is taken, the
\* round's proceed runs; its messages go to msgs_queue; Ok(next) becomes
\* the new round, an error leaves Gone behind and is returned.
Advance(i, res) ==
    /\ round' = [round EXCEPT ![i] = IF res.ok THEN NextRound(round[i]) ELSE "Gone"]
    /\ rs' = [rs EXCEPT ![i] = res.next]
    /\ msgs_queue' = [msgs_queue EXCEPT ![i] = @ \o res.out]
    /\ msgs' = IF StoreOf(round[i]) = 0 THEN msgs
               ELSE [msgs EXCEPT ![i][StoreOf(round[i])] = TakenStore(@)]
    /\ last' = [party |-> i, from |-> round[i], ret |-> res.err]
    /\ UNCHANGED << run, wire, output >>

KeygenProceedRound0(i) ==
    /\ run.proto = "keygen" /\ round[i] = "Round0"
    /\ Advance(i, KeygenRound0(rs[i], Rng(i)))

KeygenProceedRound1(i) ==
    /\ run.proto = "keygen" /\ round[i] = "Round1" /\ WantsToProceed(i)
    /\ Advance(i, KeygenRound1(rs[i], msgs[i][1], Rng(i)))

KeygenProceedRound2(i) ==
    /\ run.proto = "keygen" /\ round[i] = "Round2" /\ WantsToProceed(i)
    /\ Advance(i, KeygenRound2(rs[i], msgs[i][2]))

SignProceedRound0(i) ==
    /\ run.proto = "sign" /\ round[i] = "Round0"
    /\ Advance(i, SignRound0(rs[i], Rng(i)))

SignProceedRound1(i) ==
    /\ run.proto = "sign" /\ round[i] = "Round1" /\ WantsToProceed(i)
    /\ Advance(i, SignRound1(rs[i], msgs[i][1], Rng(i)))

SignProceedRound2(i) ==
    /\ run.proto = "sign" /\ round[i] = "Round2" /\ WantsToProceed(i)
    /\ Advance(i, SignRound2(rs[i], msgs[i][2]))

SignProceedRound3(i) ==
    /\ run.proto = "sign" /\ round[i] = "Round3" /\ WantsToProceed(i)
    /\ Advance(i, SignRound3(rs[i], msgs[i][3]))

SignProceedRound4(i) ==
    /\ run.proto = "sign" /\ round[i] = "Round4" /\ WantsToProceed(i)
    /\ Advance(i, SignRound4(rs[i], msgs[i][4]))

SignProceedRound5(i) ==
    /\ run.proto = "sign" /\ round[i] = "Round5" /\ WantsToProceed(i)
    /\ Advance(i, SignRound5(rs[i], msgs[i][5]))

\* proceed() on an incomplete store that gives the round up.
ProceedNotEnoughMessagesPoisoning(i) ==
    /\ StoreOf(round[i]) # 0
    /\ ~WantsToProceed(i)
    /\ last' = [party |-> i, from |-> round[i], ret |-> "NotEnoughMessages"]
    /\ round' = [round EXCEPT ![i] = "Gone"]
    /\ rs' = [rs EXCEPT ![i] = [gone |-> TRUE]]
    /\ UNCHANGED << run, msgs, msgs_queue, wire, output >>

\* proceed() while the store of the active round still wants messages.
ProceedNotEnoughMessages(i) ==
    /\ StoreOf(round[i]) # 0
    /\ ~WantsToProceed(i)
    /\ last' = [party |-> i, from |-> round[i], ret |-> "NotEnoughMessages"]
    /\ UNCHANGED << run, round, rs, msgs, msgs_queue, wire, output >>

\* proceed() on a machine that is Final or Gone.
ProceedFinished(i) ==
    /\ round[i] \in {"Final", "Gone"}
    /\ last' = [party |-> i, from |-> round[i], ret |-> "InvalidParameters"]
    /\ UNCHANGED << run, round, rs, msgs, msgs_queue, wire, output >>

\* pick_output(): the result is moved out of Final, Gone stays behind.
PickOutput(i) ==
    /\ round[i] = "Final"
    /\ round' = [round EXCEPT ![i] = "Gone"]
    /\ output' = [output EXCEPT ![i] = << rs[i] >>]
    /\ rs' = [rs EXCEPT ![i] = [gone |-> TRUE]]
    /\ UNCHANGED << run, msgs, msgs_queue, last, wire >>

\* handle_incoming(msg) of party j: the message goes to the store of its
\* round.
HandleIncoming(j, msg) ==
    [k \in DOMAIN msgs[j] |->
        IF k = msg.round THEN PushMsg(msgs[j][k], msg) ELSE msgs[j][k]]

\* The driver of party i drains the oldest message of msgs_queue and the
\* transport hands it to its receivers (all other parties for a broadcast)
\* with the body they are to see.
Transport(i, msg) ==
    /\ msgs_queue[i] # << >>
    /\ msgs_queue' = [msgs_queue EXCEPT ![i] = Tail(@)]
    /\ msgs' = [j \in Parties |->
                   IF j # i /\ (msg.receiver = 0 \/ msg.receiver = j)
                   THEN HandleIncoming(j, msg) ELSE msgs[j]]
    /\ UNCHANGED << run, round, rs, last, output >>

Ship(i) ==
    /\ msgs_queue[i] # << >>
    /\ Transport(i, Head(msgs_queue[i]))
    /\ UNCHANGED wire

\* The network alters one value of one message of the run.
Tampered(i, kind, oldbody, newbody) ==
    /\ wire.kind = "none"
    /\ Transport(i, [Head(msgs_queue[i]) EXCEPT !.body = newbody])
    /\ wire' = [kind |-> kind, sender |-> i, receiver |-> Head(msgs_queue[i]).receiver]

\* y_i of a BroadcastPhase1 (comm and decom as sent).
ShipTamperedY(i) ==
    /\ msgs_queue[i] # << >>
    /\ Head(msgs_queue[i]).round = 1
    /\ \E delta \in 1 .. MaxDelta :
          LET body == Head(msgs_queue[i]).body
          IN  Tampered(i, "y", body, [body EXCEPT !.y_i = GeAdd(@, delta)])

\* The share of a (VerifiableSS, share) P2P message.
ShipTamperedShare(i) ==
    /\ msgs_queue[i] # << >>
    /\ Head(msgs_queue[i]).round = 2
    /\ \E delta \in 1 .. MaxDelta :
          LET body == Head(msgs_queue[i]).body
          IN  Tampered(i, "share", body, [body EXCEPT !.share = FeAdd(@, delta)])

\* gamma_i of a broadcast LocalSig.
ShipTamperedGamma(i) ==
    /\ msgs_queue[i] # << >>
    /\ Head(msgs_queue[i]).round = 3
    /\ \E delta \in 1 .. MaxDelta :
          LET body == Head(msgs_queue[i]).body
          IN  Tampered(i, "gamma", body, [body EXCEPT !.gamma_i = FeAdd(@, delta)])

NextKeygen ==
    \/ \E i \in Parties : KeygenProceedRound0(i)
    \/ \E i \in Parties : KeygenProceedRound1(i)
    \/ \E i \in Parties : KeygenProceedRound2(i)
    \/ \E i \in Parties : ProceedNotEnoughMessages(i)
    \/ \E i \in Parties : ProceedFinished(i)
    \/ \E i \in Parties : PickOutput(i)
    \/ \E i \in Parties : Ship(i)
    \/ \E i \in Parties : ShipTamperedY(i)
    \/ \E i \in Parties : ShipTamperedShare(i)

NextSign ==
    \/ \E i \in Parties : SignProceedRound0(i)
    \/ \E i \in Parties : SignProceedRound1(i)
    \/ \E i \in Parties : SignProceedRound2(i)
    \/ \E i \in Parties : SignProceedRound3(i)
    \/ \E i \in Parties : SignProceedRound4(i)
    \/ \E i \in Parties : SignProceedRound5(i)
    \/ \E i \in Parties : ProceedNotEnoughMessages(i)
    \/ \E i \in Parties : ProceedFinished(i)
    \/ \E i \in Parties : PickOutput(i)
    \/ \E i \in Parties : Ship(i)
    \/ \E i \in Parties : ShipTamperedY(i)
    \/ \E i \in Parties : ShipTamperedShare(i)
    \/ \E i \in Parties : ShipTamperedGamma(i)

SpecKeygen == InitKeygen /\ [][NextKeygen]_vars

SpecSign == InitSign /\ [][NextSign]_vars

Next == NextKeygen \/ NextSign

Spec == Init /\ [][Next]_vars

\* ------------------------------------------------------ a store on its own

\* One of the stores expects_messages(i, n) of the keygen rounds makes for
\* party i of n (msgs1 for broadcasts or msgs2 for P2P messages), before
\* anything was pushed.
InitStore ==
    /\ run \in { [proto |-> "store", n |-> n, t |-> 1, party_i |-> i, store |-> k] :
                 n \in 2 .. MaxN, i \in 1 .. MaxN, k \in 1 .. 2 }
    /\ run.party_i <= run.n
    /\ round = << >>
    /\ rs = << >>
    /\ msgs = run.party_i :> (run.store :> NewStore(run.party_i, run.n, run.store = 2))
    /\ msgs_queue = << >>
    /\ last = NoCall
    /\ wire = NoTamper
    /\ output = << >>

\* Any message for that store is handed to handle_incoming of the party:
\* from any sender, in range or not, to any receiver, with any body (a
\* boolean, as for msgs5 of sign); last keeps the message and whether
\* push_msg took it.
PushAny ==
    \E sender \in 0 .. MaxN + 1, receiver \in 0 .. MaxN, body \in BOOLEAN :
        LET msg == Msg(sender, receiver, run.store, body)
            j == run.party_i
        IN  /\ msgs' = [msgs EXCEPT ![j] = HandleIncoming(j, msg)]
            /\ last' = [party |-> j, from |-> msg,
                        ret |-> IF PushAccepts(msgs[j][run.store], msg)
                                THEN "Ok" ELSE "Err"]
            /\ UNCHANGED << run, round, rs, msgs_queue, wire, output >>

NextStore == PushAny

SpecStore == InitStore /\ [][NextStore]_vars

\* ------------------------------------------------------- n-of-n multisig

\* KeyPair::create: a secret scalar and its public point.
KeyPairCreate(secret) == [private_key |-> secret, public_key |-> GMul(secret)]

\* Keys::create / EphKey::gen_commit: the long-term pair I and the
\* ephemeral pair X of party k.
MultisigKeys(rng, k) ==
    [I |-> KeyPairCreate(Tape(rng.seed, k, 1)),
     X |-> KeyPairCreate(Tape(rng.seed, k, 2))]

\* partial_sign with the long-term share subtracted.
partial_sign_minus(keys, e) ==
    FeSub(keys.X.private_key, FeMul(e, keys.I.private_key))

\* partial_sign(keys, e): y_k = x_k + e * i_k
partial_sign(keys, e) ==
    FeAdd(keys.X.private_key, FeMul(e, keys.I.private_key))

\* EphKey::add_signature_parts(sig_vec)
add_signature_parts(sig_vec) == FoldFe(sig_vec)

\* verify(I, X, y, e): G * y == X + e * I
verify(I, X, y, e) ==
    IF GMul(y) = GeAdd(X, GeMul(I, e)) THEN "Ok" ELSE "Err"

\* n parties with their keys and a challenge e, nothing signed yet.
InitMultisig ==
    /\ run \in { [proto |-> "multisig", n |-> n, t |-> n - 1, seed |-> seed, e |-> e] :
                 n \in 1 .. MaxN, seed \in 1 .. MaxSeed, e \in FE }
    /\ round = [k \in Parties |-> "Keys"]
    /\ rs = [k \in Parties |-> MultisigKeys(Rng(k), k)]
    /\ msgs = << >>
    /\ msgs_queue = << >>
    /\ last = NoCall
    /\ wire = NoTamper
    /\ output = [k \in Parties |-> << >>]

\* Party k signs: y_k = partial_sign(keys_k, e).
PartialSign(k) ==
    /\ round[k] = "Keys"
    /\ round' = [round EXCEPT ![k] = "Signed"]
    /\ output' = [output EXCEPT ![k] = << partial_sign(rs[k], run.e) >>]
    /\ UNCHANGED << run, rs, msgs, msgs_queue, last, wire >>

\* The partial signature of party k is verified against its own keys.
VerifyPartial(k) ==
    /\ round[k] = "Signed"
    /\ last' = [party |-> k, from |-> "verify",
                ret |-> verify(rs[k].I.public_key, rs[k].X.public_key,
                               output[k][1], run.e)]
    /\ UNCHANGED << run, round, rs, msgs, msgs_queue, wire, output >>

\* The aggregates of the public keys (It, Xt) and of the partial signatures.
JointI == FoldGe([k \in Parties |-> rs[k].I.public_key])
JointX == FoldGe([k \in Parties |-> rs[k].X.public_key])
JointSig == add_signature_parts([k \in Parties |-> output[k][1]])

\* All parts are there: they are added up and the sum is verified against
\* the aggregated keys.
VerifyAggregate ==
    /\ \A k \in Parties : round[k] = "Signed"
    /\ last' = [party |-> 0, from |-> "aggregate",
                ret |-> verify(JointI, JointX, JointSig, run.e)]
    /\ UNCHANGED << run, round, rs, msgs, msgs_queue, wire, output >>

NextMultisig ==
    \/ \E k \in Parties : PartialSign(k)
    \/ \E k \in Parties : VerifyPartial(k)
    \/ VerifyAggregate

SpecMultisig == InitMultisig /\ [][NextMultisig]_vars

\* ------------------------------------------------------------ properties

\* Whether party i reached Final, and the result it reached it with (still
\* in the machine, or already picked by the driver).
HasResult(i) == round[i] = "Final" \/ output[i] # << >>
ResultOf(i) == IF round[i] = "Final" THEN rs[i] ELSE output[i][1]

\* No value was altered on the wire.
HonestRun == wire.kind = "none"

\* The keys party j created in Round0 of this run.
CreatedKeys(j) == KeysPhase1Create(Rng(j), j - 1)
CreatedY == [j \in 1 .. run.n |-> CreatedKeys(j).y_i]
CreatedU == [j \in 1 .. run.n |-> CreatedKeys(j).u_i]

\* C2: in an honest keygen run every party that reaches Final holds a
\* LocalKey whose public_key() is the sum of all parties' y_i, and whose
\* vk_vec is the list of the y_i in party order; so both are the same at
\* all parties.
C2_KeygenAgreement ==
    (run.proto = "keygen" /\ HonestRun) =>
        \A i \in Parties :
            HasResult(i) =>
                /\ public_key(ResultOf(i)) = FoldGe(CreatedY)
                /\ ResultOf(i).vk_vec = CreatedY
                /\ \A j \in Parties :
                       HasResult(j) =>
                           /\ public_key(ResultOf(j)) = public_key(ResultOf(i))
                           /\ ResultOf(j).vk_vec = ResultOf(i).vk_vec

\* An honest keygen run of three parties with distinct y_i, all Final.
C2_Witness ==
    /\ run.proto = "keygen" /\ HonestRun /\ run.n = 3
    /\ \A i \in Parties : round[i] = "Final"
    /\ Cardinality({CreatedY[j] : j \in Parties}) = 3

\* The t + 1 shares x_i of the parties in S, interpolated at 0, with the
\* share of party i at the point i.
InterpolatedSecret(S) ==
    LET points == SortedSeq(S)
    IN  LagrangeAtZero(points,
                       [k \in 1 .. Len(points) |-> ResultOf(points[k]).shared_keys.x_i])

\* C3: after an honest keygen run, the shares x_i of every t + 1 parties
\* interpolate at 0 to u = the sum of all u_i, and G * u is the joint
\* public key Y.
C3_KeygenShares ==
    (run.proto = "keygen" /\ HonestRun) =>
        \A S \in SUBSET Parties :
            (Cardinality(S) = run.t + 1 /\ \A i \in S : HasResult(i)) =>
                /\ InterpolatedSecret(S) = FoldFe(CreatedU)
                /\ \A i \in S : GMul(FoldFe(CreatedU)) = public_key(ResultOf(i))

\* An honest 2-of-3 keygen run, all Final, whose dealing polynomials are
\* not constant (the shares differ).
C3_Witness ==
    /\ run.proto = "keygen" /\ HonestRun /\ run.n = 3 /\ run.t = 1
    /\ \A i \in Parties : round[i] = "Final"
    /\ Cardinality({rs[i].shared_keys.x_i : i \in Parties}) = 3

\* The latest call of proceed was made by party i in round r with a full
\* store (the round's own proceed ran).
RoundRan(i, r) ==
    last.party = i /\ last.from = r /\ last.ret # "NotEnoughMessages"

\* The senders of the P2P share messages that are queued or stored.
ShareSenders ==
    {i \in Parties : \E k \in 1 .. Len(msgs_queue[i]) : msgs_queue[i][k].round = 2}
    \cup UNION {DOMAIN msgs[j][2].msgs : j \in Parties}

\* C4: when the BroadcastPhase1 of a keygen party k was delivered with a
\* y_k other than the one committed to (comm and decom as sent), Round1 of
\* every other party fails with Round1(InvalidCommitment); none of them
\* reaches Round2 (or Final) and none of them emits a P2P share.
C4_CommitmentBinding ==
    (run.proto = "keygen" /\ wire.kind = "y") =>
        \A j \in Parties \ {wire.sender} :
            /\ round[j] \in {"Round0", "Round1", "Gone"}
            /\ ~HasResult(j)
            /\ j \notin ShareSenders
            /\ RoundRan(j, "Round1") => last.ret = "Round1(InvalidCommitment)"

\* The y of one party of three was altered; another party has just failed
\* Round1 on it and the third has failed before.
C4_Witness ==
    /\ run.proto = "keygen" /\ wire.kind = "y" /\ run.n = 3
    /\ \E j \in Parties \ {wire.sender} :
          /\ RoundRan(j, "Round1") /\ last.ret = "Round1(InvalidCommitment)"
          /\ \A i \in Parties \ {wire.sender} : round[i] = "Gone"

\* C5: when exactly the share of one keygen P2P message from k to j was
\* altered, Round2 of party j fails with Round2(InvalidSS), and Round2 of
\* every other party succeeds and reaches Final (where its LocalKey is
\* then picked).
C5_ShareSoundness ==
    (run.proto = "keygen" /\ wire.kind = "share") =>
        /\ ~HasResult(wire.receiver)
        /\ RoundRan(wire.receiver, "Round2") => last.ret = "Round2(InvalidSS)"
        /\ \A i \in Parties \ {wire.receiver} :
               RoundRan(i, "Round2") =>
                   (last.ret = "Ok" /\ HasResult(i))

\* A share from k to j was altered in a run of three; j has failed Round2
\* and the two others are Final.
C5_Witness ==
    /\ run.proto = "keygen" /\ wire.kind = "share" /\ run.n = 3
    /\ round[wire.receiver] = "Gone" /\ ~HasResult(wire.receiver)
    /\ \A i \in Parties \ {wire.receiver} : round[i] = "Final"
    /\ \E i \in Parties \ {wire.receiver} : RoundRan(i, "Round2")

\* The joint public key Y of the keygen run the signers' LocalKeys are from.
JointY ==
    public_key(HonestLocalKey(run.keyn, run.t, run.keyseed, run.signers[1]))

\* Party i holds a Signature that verifies for the message under Y.
HoldsValidSignature(i) ==
    /\ HasResult(i)
    /\ SignatureVerify(ResultOf(i).signature, run.message, JointY)

\* The latest call of proceed returned a round's error (or panicked).
RoundFailed ==
    last.ret \notin {"None", "Ok", "NotEnoughMessages", "InvalidParameters"}

\* C1: in an honest sign run of t + 1 or more holders of the LocalKeys of
\* one keygen run, no round of any signer fails, and every signer that
\* reaches Final holds a Signature {R, sigma} with
\* G * sigma == R + H(R || Y || m) * Y.
C1_SignCorrectness ==
    (run.proto = "sign" /\ HonestRun /\ run.n >= run.t + 1) =>
        /\ ~RoundFailed
        /\ \A i \in Parties : HasResult(i) => HoldsValidSignature(i)

\* An honest run of exactly t + 1 signers in which every signer has reached
\* Final and the Signature of one of them does not verify.
C1_Witness ==
    /\ run.proto = "sign" /\ HonestRun /\ run.n = run.t + 1
    /\ \A i \in Parties : HasResult(i)
    /\ \E i \in Parties : ~HoldsValidSignature(i)

\* C6: when the gamma_i of a signer's broadcast LocalSig was altered on the
\* wire, Round5 of every signer that received it fails with
\* Round5(InvalidSig), and none of them reaches Final with a Signature.
C6_LocalSigBinding ==
    (run.proto = "sign" /\ wire.kind = "gamma") =>
        \A j \in Parties \ {wire.sender} :
            /\ ~HasResult(j)
            /\ RoundRan(j, "Round5") => last.ret = "Round5(InvalidSig)"

\* A signer that received an altered gamma_i has just left Round5 without
\* an error and is Final.
C6_Witness ==
    /\ run.proto = "sign" /\ wire.kind = "gamma"
    /\ \E j \in Parties \ {wire.sender} :
          RoundRan(j, "Round5") /\ last.ret = "Ok" /\ round[j] = "Final"

\* C7: in a sign run of only t signers, whatever the network does, no
\* signer ever holds a Signature {R, sigma} with G * sigma == R + e * Y.
C7_ThresholdEnforcement ==
    (run.proto = "sign" /\ run.n = run.t) =>
        \A i \in Parties : ~HoldsValidSignature(i)

\* A run of t signers came as far as Signature::generate in Round5, which
\* could not interpolate from t entries.
C7_Witness ==
    /\ run.proto = "sign" /\ run.n = run.t
    /\ last.from = "Round5" /\ last.ret = "Panic"
    /\ round[last.party] = "Gone" /\ ~HasResult(last.party)

\* A step is a call of proceed by party i (it leaves its record in last).
Proceeds(i) == last' # last /\ last'.party = i

\* The store of the round party i is in still wants messages.
StoreIncomplete(i) ==
    StoreOf(round[i]) # 0 /\ WantsMore(msgs[i][StoreOf(round[i])])

\* C8: in both machines a call of proceed while the store of the active
\* round still wants messages returns NotEnoughMessages and leaves the
\* round, its state, the stores and msgs_queue as they were; a call of
\* proceed on a machine that is Final or Gone returns InvalidParameters.
C8_RoundOrdering ==
    [][\A i \in Parties :
          Proceeds(i) =>
              /\ last'.from = round[i]
              /\ StoreIncomplete(i) =>
                     /\ last'.ret = "NotEnoughMessages"
                     /\ UNCHANGED << round, rs, msgs, msgs_queue, output >>
              /\ round[i] \in {"Final", "Gone"} =>
                     /\ last'.ret = "InvalidParameters"
                     /\ UNCHANGED << round, rs, msgs, msgs_queue, output >>
              /\ last'.ret = "NotEnoughMessages" => StoreIncomplete(i)
      ]_vars

\* A party of three has called proceed with one of the two messages of the
\* round in its store, and was told NotEnoughMessages; the message is
\* still there.
C8_Witness ==
    /\ run.n = 3 /\ last.ret = "NotEnoughMessages"
    /\ round[last.party] = last.from
    /\ Cardinality(DOMAIN msgs[last.party][StoreOf(last.from)].msgs) = 1

\* C9: in both machines, when a round's proceed returns an error the
\* machine is Gone afterwards; a machine that is Gone stays Gone under
\* every operation, so it never reaches Final and never yields an output.
C9_ErrorPoisoning ==
    [][\A i \in Parties :
          /\ (Proceeds(i) /\ RoundFailed') =>
                 (round'[i] = "Gone" /\ output'[i] = << >>)
          /\ round[i] = "Gone" =>
                 (round'[i] = "Gone" /\ output'[i] = output[i])
      ]_vars

\* A machine failed in a round, and was still Gone when another proceed
\* was called on it later.
C9_Witness ==
    /\ last.from = "Gone" /\ last.ret = "InvalidParameters"
    /\ round[last.party] = "Gone" /\ output[last.party] = << >>

\* C10 as stated: whenever the state of a machine changes, it changes to
\* the next state of Round0 -> Round1 -> ... -> Final -> Gone.
C10_OnlyAlongTheOrder ==
    [][\A i \in Parties :
          round'[i] # round[i] => Position(round'[i]) = Position(round[i]) + 1
      ]_vars

\* C10: a successful proceed moves the machine exactly one state along
\* Round0 -> Round1 -> ... -> Final, pick_output moves it from Final to
\* Gone, and a failed proceed moves it from its round directly to Gone; the
\* state changes in no other way, so no round is repeated or re-entered,
\* none is skipped by a successful proceed, and Gone is a sink.
C10_RoundProgression ==
    [][\A i \in Parties :
          /\ (Proceeds(i) /\ last'.ret = "Ok") =>
                 /\ round[i] = last'.from
                 /\ round'[i] # "Gone"
                 /\ Position(round'[i]) = Position(round[i]) + 1
          /\ round'[i] # round[i] =>
                 \/ /\ Proceeds(i) /\ last'.ret = "Ok"
                    /\ Position(round'[i]) = Position(round[i]) + 1
                 \/ /\ round[i] = "Final" /\ round'[i] = "Gone"
                    /\ last' = last /\ output'[i] # << >>
                 \/ /\ Proceeds(i) /\ RoundFailed'
                    /\ round[i] \notin {"Final", "Gone"} /\ round'[i] = "Gone"
      ]_vars

\* A machine has failed in a round before the last one and is Gone with
\* no output, having skipped the rounds after it.
C10_Witness ==
    /\ RoundFailed /\ round[last.party] = "Gone" /\ output[last.party] = << >>
    /\ Position(last.from) + 2 < Position("Gone")

\* Nothing is left to do for the drivers: every msgs_queue is drained and
\* delivered, and no machine in a round wants to proceed.
Quiescent ==
    \A i \in Parties :
        /\ msgs_queue[i] = << >>
        /\ round[i] \notin {"Final", "Gone"} => ~WantsToProceed(i)

\* C11: in a run in which nothing is altered (and, for sign, with at least
\* t + 1 signers), no party ends in Gone without a result, and when the
\* drivers have delivered every message and proceeded every machine that
\* wanted to, every party has reached Final: none is left waiting in an
\* intermediate round.
C11_HonestTermination ==
    (HonestRun /\ run.n >= run.t + 1) =>
        /\ \A i \in Parties : round[i] = "Gone" => output[i] # << >>
        /\ Quiescent => \A i \in Parties : HasResult(i)

\* An undisturbed sign run of t + 1 signers has come to rest with a signer
\* that is Gone and has no Signature.
C11_Witness ==
    /\ run.proto = "sign" /\ HonestRun /\ run.n = run.t + 1 /\ Quiescent
    /\ \E i \in Parties : ~HasResult(i)

\* Party i runs the proceed of round r in this step (its store is full).
Runs(i, r) ==
    Proceeds(i) /\ last'.from = r /\ last'.ret # "NotEnoughMessages"

\* The validation boolean of signer j that signer i has in Round5: its own
\* result, or the one received from j.
Reported(i, j) == IF j = i THEN rs[i].own_result ELSE msgs[i][5].msgs[j]

C13_NoInvalidSignature ==
    run.proto = "sign" =>
        \A i \in Parties : HasResult(i) => HoldsValidSignature(i)

\* Round5 of a signer has just returned Ok, and the Signature it returned
\* does not verify.
C13_Witness ==
    /\ run.proto = "sign"
    /\ last.from = "Round5" /\ last.ret = "Ok"
    /\ round[last.party] = "Final"
    /\ ~SignatureVerify(rs[last.party].signature, run.message, JointY)

\* The senders a store of party i of n may hold messages of.
Peers == (1 .. run.n) \ {run.party_i}

\* C14: a store expects_messages(i, n) makes holds, after any sequence of
\* pushes, at most one message per sender and only of senders j with
\* 1 <= j <= n, j # i; it is full (wants no more) exactly when it holds
\* n - 1 messages; a push from a sender already present, from i itself or
\* from a sender out of range is rejected and leaves the store as it was,
\* and an accepted push adds the message of a new sender and changes
\* nothing else.
C14_StoreBounds ==
    [][LET msg == last'.from
           old == msgs[run.party_i][run.store]
           new == msgs'[run.party_i][run.store]
       IN  /\ DOMAIN new.msgs \subseteq Peers
           /\ Cardinality(DOMAIN new.msgs) <= run.n - 1
           /\ ~WantsMore(new) <=> Cardinality(DOMAIN new.msgs) = run.n - 1
           /\ \A j \in DOMAIN old.msgs :
                  j \in DOMAIN new.msgs /\ new.msgs[j] = old.msgs[j]
           /\ (msg.sender \notin Peers \/ msg.sender \in DOMAIN old.msgs) =>
                  (last'.ret = "Err" /\ new = old)
           /\ last'.ret = "Err" => new = old
           /\ last'.ret = "Ok" =>
                  /\ DOMAIN new.msgs = DOMAIN old.msgs \cup {msg.sender}
                  /\ new.msgs[msg.sender] = msg.body
      ]_vars

\* The broadcast store of a party of three is full, and the latest push,
\* from a sender it already held another message of, was rejected.
C14_Witness ==
    /\ run.proto = "store" /\ run.n = 3 /\ run.store = 1
    /\ ~WantsMore(msgs[run.party_i][1])
    /\ last.ret = "Err" /\ last.from.receiver = 0
    /\ last.from.sender \in DOMAIN msgs[run.party_i][1].msgs
    /\ msgs[run.party_i][1].msgs[last.from.sender] # last.from.body

\* C15: for the keys (i_k, I_k), (x_k, X_k) of any number of parties and
\* any challenge e, every partial signature y_k = x_k + e * i_k verifies
\* against the party's own keys, verify(I_k, X_k, y_k, e) = Ok, and the sum
\* y of all of them satisfies G * y == sum X_k + e * sum I_k, so that
\* verify(sum I_k, sum X_k, y, e) = Ok.
C15_MultisigAggregation ==
    run.proto = "multisig" =>
        /\ last.from \in {"verify", "aggregate"} => last.ret = "Ok"
        /\ \A k \in Parties :
               round[k] = "Signed" =>
                   GMul(output[k][1]) =
                       GeAdd(rs[k].X.public_key, GeMul(rs[k].I.public_key, run.e))
        /\ (\A k \in Parties : round[k] = "Signed") =>
               GMul(JointSig) = GeAdd(JointX, GeMul(JointI, run.e))

\* Three parties have signed for a challenge other than 0 and the sum of
\* their parts was verified against the aggregated keys.
C15_Witness ==
    /\ run.proto = "multisig" /\ run.n = 3 /\ run.e # 0
    /\ last.from = "aggregate" /\ last.ret = "Ok"
    /\ \E k \in Parties : rs[k].I.private_key # 0

\* The messages the step puts into msgs_queue of party i.
Emitted(i) ==
    SubSeq(msgs_queue'[i], Len(msgs_queue[i]) + 1, Len(msgs_queue'[i]))

\* C16: in both machines a successful Round1::proceed of party i emits
\* exactly n - 1 messages, all P2P from i, one to each peer j # i and none
\* to i; the body for j is the VSS commitment vector of i (the one kept as
\* own_vss, committing to the y_i of i) and the share of that polynomial
\* at point j; the share at point i is kept as own_share.
C16_ShareDistribution ==
    [][\A i \in Parties :
          (Runs(i, "Round1") /\ last'.ret = "Ok") =>
              LET out == Emitted(i)
              IN  /\ Len(out) = run.n - 1
                  /\ {out[k].receiver : k \in 1 .. Len(out)} = Parties \ {i}
                  /\ \A k \in 1 .. Len(out) :
                         /\ out[k].sender = i /\ out[k].round = 2
                         /\ out[k].body.vss = rs'[i].own_vss
                         /\ ValidateShare(out[k].body.vss, out[k].body.share,
                                          out[k].receiver)
                  /\ rs'[i].own_vss.commitments[1] = rs[i].keys.y_i
                  /\ Len(rs'[i].own_vss.commitments) = run.t + 1
                  /\ ValidateShare(rs'[i].own_vss, rs'[i].own_share, i)
      ]_vars

\* Party 2 of a run of three has left Round1 and its two shares, for
\* parties 1 and 3, are the last messages of its msgs_queue.
C16_Witness ==
    /\ run.proto \in {"keygen", "sign"} /\ run.n = 3
    /\ last.party = 2 /\ last.from = "Round1" /\ last.ret = "Ok"
    /\ round[2] = "Round2"
    /\ Len(msgs_queue[2]) >= 2
    /\ LET q == msgs_queue[2]
       IN  /\ q[Len(q) - 1].receiver = 1 /\ q[Len(q) - 1].round = 2
           /\ q[Len(q)].receiver = 3 /\ q[Len(q)].round = 2

\* The signers of the run as 0-based indices, in the order of
\* local_sig_vec: by their place in the signing run, or by the place in
\* the keygen run their LocalKey is from.
ZeroBasedByPlace == [k \in 1 .. run.n |-> k - 1]
ZeroBasedByKey == [k \in 1 .. run.n |-> run.signers[k] - 1]

\* C17: the index list a signer in Round5 holds for Signature::generate
\* (self.parties) is the 0-based list of the signers, each entry a
\* signer's 1-based id minus 1, in the order of local_sig_vec.
C17_ZeroBasedIndices ==
    run.proto = "sign" =>
        \A i \in Parties :
            round[i] = "Round5" =>
                /\ Len(rs[i].parties) = Len(rs[i].local_sig_vec)
                /\ rs[i].parties \in {ZeroBasedByPlace, ZeroBasedByKey}

\* A signer of an undisturbed run of the holders 1 and 2 is in Round5 with
\* the 1-based list << 1, 2 >> for Signature::generate.
C17_Witness ==
    /\ run.proto = "sign" /\ HonestRun /\ run.signers = << 1, 2 >>
    /\ \E i \in Parties : round[i] = "Round5" /\ rs[i].parties = << 1, 2 >>

\* C_i of signer i in Round3: e times the sum over the long-term dealers of
\* their commitment at position party_i - 1, plus the sum over the
\* ephemeral dealers of theirs.
ExpectedCommitment(i) ==
    LET long == rs[i].private_key.vss_scheme_vec
        eph == rs[i].tmpkey.vss_scheme_vec
    IN  GeAdd(GeMul(FoldGe([k \in 1 .. Len(long) |-> long[k].commitments[i]]),
                    rs[i].local_sig.e),
              FoldGe([k \in 1 .. Len(eph) |-> eph[k].commitments[i]]))

\* C18: for every signer i, also of a run of more than t + 1 signers,
\* Round3::proceed on the full LocalSig store succeeds, the machine is in
\* Round4 afterwards, and exactly one message was emitted: the broadcast
\* of the point C_i.
C18_Round3Commitment ==
    [][\A i \in Parties :
          Runs(i, "Round3") =>
              /\ last'.ret = "Ok"
              /\ round'[i] = "Round4"
              /\ Len(Emitted(i)) = 1
              /\ Emitted(i)[1].sender = i /\ Emitted(i)[1].receiver = 0
              /\ Emitted(i)[1].body = ExpectedCommitment(i)
      ]_vars

\* Signer 3 of an undisturbed run of three with t = 1 has run Round3: it
\* panicked, nothing was broadcast, the machine is Gone.
C18_Witness ==
    /\ run.proto = "sign" /\ HonestRun /\ run.n = 3 /\ run.t = 1
    /\ last.party = 3 /\ last.from = "Round3" /\ last.ret = "Panic"
    /\ round[3] = "Gone" /\ msgs_queue[3] = << >>

\* The machine of party i is in one of its rounds.
InRound(i) == round[i] \notin {"Final", "Gone"}

\* C19: in both machines, whatever was received, the round state of every
\* party holds the party_i, t, n and parties its Round0 was given.
C19_ParametersImmutable ==
    run.proto \in {"keygen", "sign"} =>
        \A i \in Parties :
            InRound(i) =>
                /\ rs[i].party_i = i
                /\ rs[i].t = run.t
                /\ rs[i].n = run.n
                /\ rs[i].parties = run.signers

\* A signer of an undisturbed run of the holders 1 and 3 is past Round1
\* and holds << 1, 2 >> as parties.
C19_Witness ==
    /\ run.proto = "sign" /\ HonestRun /\ run.signers = << 1, 3 >>
    /\ \E i \in Parties :
          /\ round[i] \in {"Round2", "Round3", "Round4", "Round5"}
          /\ rs[i].parties = << 1, 2 >>

\* Whether G * gamma_i of signer i lies, at point party_i, on the VSS whose
\* commitment vector is the C_j signer i has collected in Round4.
OwnGammaValid(i) ==
    ValidateSharePublic(
        [parameters |-> rs[i].private_key.vss_scheme.parameters,
         commitments |-> [j \in 1 .. run.n |->
                             IF j = i THEN rs[i].comm ELSE msgs[i][4].msgs[j]]],
        GMul(rs[i].local_sig.gamma_i), i)

\* What Round4::proceed does in every run: no error, the machine is in
\* Round5 afterwards also when the validation failed, and exactly one
\* message was emitted, the broadcast of the boolean OwnGammaValid.
Round4Reports(i) ==
    /\ last'.ret = "Ok"
    /\ round'[i] = "Round5"
    /\ Len(Emitted(i)) = 1
    /\ Emitted(i)[1].sender = i /\ Emitted(i)[1].receiver = 0
    /\ Emitted(i)[1].body = OwnGammaValid(i)
    /\ rs'[i].own_result = OwnGammaValid(i)

\* C20: Round4::proceed of a signer never returns an error; it broadcasts
\* exactly one boolean, the result of validating its own G * gamma_i
\* against the collected C_j at point party_i, and advances to Round5
\* whatever that result is; in an undisturbed run of at least t + 1
\* signers the boolean is true for every signer.
C20_Round4Reports ==
    [][\A i \in Parties :
          Runs(i, "Round4") =>
              /\ Round4Reports(i)
              /\ (HonestRun /\ run.n >= run.t + 1) => OwnGammaValid(i) = TRUE
      ]_vars

\* A signer of an undisturbed run of t + 1 signers has left Round4 for
\* Round5 after reporting false.
C20_Witness ==
    /\ run.proto = "sign" /\ HonestRun /\ run.n = run.t + 1
    /\ last.from = "Round4" /\ last.ret = "Ok"
    /\ round[last.party] = "Round5"
    /\ rs[last.party].own_result = FALSE

\* The message of party i itself that the proceed of round r hands to
\* into_vec_including_me.
OwnMessage(i, r) ==
    CASE r = "Round1" -> rs[i].mybroadcast
      [] r = "Round2" -> [vss |-> rs[i].own_vss, share |-> rs[i].own_share]
      [] r = "Round3" -> rs[i].local_sig
      [] r = "Round4" -> rs[i].comm
      [] r = "Round5" -> rs[i].own_result

\* The vector the proceed of round r of party i builds from its store.
RoundInput(i, r) == IntoVecIncludingMe(msgs[i][StoreOf(r)], OwnMessage(i, r))

\* The rounds that take peer messages.
InputRounds ==
    IF run.proto = "keygen" THEN {"Round1", "Round2"}
    ELSE {"Round1", "Round2", "Round3", "Round4", "Round5"}

\* The BroadcastPhase1 at a position of the Round1 vector is the one party
\* j made in Round0: its index field is j - 1, its commitment and
\* decommitment are those of the keys of j, and so is its y_i unless the
\* network altered the y_i of the message of j.
FromSender(m, j) ==
    LET keys == CreatedKeys(j)
        bc == KeysPhase1Broadcast(Rng(j), keys)
    IN  /\ m.index = j - 1
        /\ m.comm = bc.comm
        /\ m.decom = bc.decom
        /\ (wire.kind = "y" /\ wire.sender = j) \/ m.y_i = keys.y_i

\* What a successful proceed of round r keeps of its vector v in the next
\* state: Round1 the column of the y_i as y_vec, Round2 the column of the
\* VSS schemes as vss_scheme_vec of the key it makes, sign Round3 the
\* whole vector as local_sig_vec, sign Round4 the whole vector as the
\* commitments of vss_sum; Round5 keeps nothing of it.
Kept(i, r, v) ==
    CASE r = "Round1" -> rs'[i].y_vec = YOf(v)
      [] r = "Round2" ->
            IF run.proto = "keygen" THEN rs'[i].vss_scheme_vec = VssOf(v)
            ELSE rs'[i].tmpkey.vss_scheme_vec = VssOf(v)
      [] r = "Round3" -> rs'[i].local_sig_vec = v
      [] r = "Round4" -> rs'[i].vss_sum.commitments = v
      [] OTHER -> TRUE

\* C21: in every round that takes peer messages the vector built by
\* into_vec_including_me has length n, holds at position j - 1 (here j)
\* the message received from peer j and at position party_i - 1 the
\* party's own message; in Round1 the commitment, the decommitment and the
\* y_i at one position all come from the party of that position; what a
\* successful round keeps of the vector keeps that order.
C21_OrdinalPosition ==
    [][\A i \in Parties : \A r \in InputRounds :
          Runs(i, r) =>
              LET v == RoundInput(i, r)
              IN  /\ DOMAIN v = 1 .. run.n
                  /\ v[i] = OwnMessage(i, r)
                  /\ \A j \in Parties \ {i} : v[j] = msgs[i][StoreOf(r)].msgs[j]
                  /\ r = "Round1" =>
                         /\ \A j \in Parties : FromSender(v[j], j)
                  /\ last'.ret = "Ok" => Kept(i, r, v)
      ]_vars

\* Party 2 of three has run Round1 on the broadcasts of parties 1 and 3
\* and its own, three different y_i, and keeps them in the order of the
\* parties.
C21_Witness ==
    /\ run.proto \in {"keygen", "sign"} /\ run.n = 3
    /\ last.party = 2 /\ last.from = "Round1" /\ last.ret = "Ok"
    /\ rs[2].y_vec = CreatedY
    /\ Cardinality({CreatedY[j] : j \in 1 .. 3}) = 3

\* The rounds whose proceed broadcasts, and the ones that send P2P.
BroadcastRounds ==
    IF run.proto = "keygen" THEN {"Round0"}
    ELSE {"Round0", "Round2", "Round3", "Round4"}
P2PRounds == {"Round1"}

\* A sequence of numbers that grows strictly.
Ascending(f) == \A a, b \in DOMAIN f : a < b => f[a] < f[b]

\* The envelopes of the messages out that the proceed of round r of party
\* i pushed: all name i as the sender; a broadcast round pushed one
\* message to None (0) if it returned Ok and none if it failed; Round1
\* pushed P2P messages only, to parties of 1..n other than i, in the order
\* of the shares; the other rounds pushed nothing.
Envelopes(i, r, out) ==
    /\ \A k \in 1 .. Len(out) : out[k].sender = i
    /\ r \in BroadcastRounds =>
           /\ Len(out) = (IF last'.ret = "Ok" THEN 1 ELSE 0)
           /\ \A k \in 1 .. Len(out) : out[k].receiver = 0
    /\ r \in P2PRounds =>
           /\ \A k \in 1 .. Len(out) :
                  out[k].receiver \in (1 .. run.n) \ {i}
           /\ Ascending([k \in 1 .. Len(out) |-> out[k].receiver])
    /\ r \notin (BroadcastRounds \cup P2PRounds) => out = << >>

\* C22: every message a round of either machine pushes names the party
\* itself as its sender; a broadcast round (keygen Round0; sign Round0,
\* Round2, Round3, Round4) that returns Ok pushes exactly one message,
\* with receiver None, and one that fails pushes none; Round1 pushes only P2P messages, to receivers j
\* with 1 <= j <= n and j # party_i; the messages pushed by a call of
\* proceed are appended to msgs_queue of that party in the order they
\* were produced, behind the ones not yet drained, and nothing else adds
\* to a msgs_queue.
C22_Envelope ==
    [][\A i \in Parties :
          /\ Proceeds(i) =>
                 /\ Len(msgs_queue'[i]) >= Len(msgs_queue[i])
                 /\ msgs_queue'[i] = msgs_queue[i] \o Emitted(i)
                 /\ Envelopes(i, last'.from, Emitted(i))
                 /\ \A j \in Parties \ {i} : msgs_queue'[j] = msgs_queue[j]
          /\ (last' = last) => Len(msgs_queue'[i]) <= Len(msgs_queue[i])
      ]_vars

\* C22 as it is worded: a broadcast round pushes exactly one message, with
\* receiver None, whenever its proceed runs, also when it returns an error.
C22_AlwaysOneBroadcast ==
    [][\A i \in Parties : \A r \in BroadcastRounds :
          Runs(i, r) =>
              /\ Len(Emitted(i)) = 1
              /\ Emitted(i)[1].sender = i /\ Emitted(i)[1].receiver = 0
      ]_vars

\* Signer 2 of three has returned Ok from Round2 while its two shares
\* were not yet drained: its msgs_queue holds the P2P messages to 1 and to
\* 3 and behind them the broadcast of its LocalSig, all three from 2.
C22_Witness ==
    /\ run.proto = "sign" /\ run.n = 3
    /\ last.party = 2 /\ last.from = "Round2" /\ last.ret = "Ok"
    /\ Len(msgs_queue[2]) = 3
    /\ [k \in 1 .. 3 |-> msgs_queue[2][k].receiver] = << 1, 3, 0 >>
    /\ [k \in 1 .. 3 |-> msgs_queue[2][k].round] = << 2, 2, 3 >>
    /\ \A k \in 1 .. 3 : msgs_queue[2][k].sender = 2

\* The errors a round's proceed returns: Round1, Round2 and Round5 of
\* ProceedError with the error of party_i inside.
RoundErrors ==
    {"Round1(InvalidCommitment)", "Round2(InvalidSS)", "Round5(InvalidSig)"}

\* C23: a call of proceed in which the round fails (keygen Round1 and
\* Round2, sign Round1, Round2 and Round5 returning their error, and a
\* round that panics alike) pushes no message: msgs_queue of every party
\* is after the call what it was before it, and the party is Gone.
C23_FailingRoundSendsNothing ==
    [][\A i \in Parties :
          (Proceeds(i) /\ (last'.ret \in RoundErrors \/ last'.ret = "Panic")) =>
              /\ msgs_queue' = msgs_queue
              /\ Emitted(i) = << >>
              /\ round'[i] = "Gone"
      ]_vars

\* A party has just returned a round's error while the shares it dealt in
\* Round1 were still waiting in its msgs_queue: the queue holds these and
\* nothing else.
C23_Witness ==
    /\ run.proto \in {"keygen", "sign"}
    /\ last.ret \in RoundErrors /\ last.from = "Round2"
    /\ round[last.party] = "Gone"
    /\ Len(msgs_queue[last.party]) = run.n - 1
    /\ \A k \in 1 .. Len(msgs_queue[last.party]) :
           msgs_queue[last.party][k].round = 2

=============================================================================
